---- MODULE Spec2Model ----
(***************************************************************************)
(* A model of AFP.py (Quartz_AutoFilmProc): the three numeric stages       *)
(* auto_balance_color, auto_adjust_exposure and auto_enhance_image, the    *)
(* inversion step, and the handlers of ImageProcessorApp (load_image,      *)
(* process_image, batch_process_images, save_image).                       *)
(*                                                                         *)
(* Arithmetic.  NumPy computes the means, gains and products in float64.   *)
(* The model computes them as exact rationals (numerator, denominator) and *)
(* truncates where the code casts to uint8.  The non-finite values the     *)
(* code can produce (NaN, +inf) are modelled explicitly; a cast of NaN to  *)
(* uint8 is undefined in C and is a choice among NaNCastOutcomes.          *)
(***************************************************************************)
EXTENDS Integers, Sequences, FiniteSets, TLC

VARIABLES
    image,            \* self.image: None or a PIL image
    processed_image,  \* self.processed_image: None or a PIL image
    displayed,        \* the image shown in image_label (None: none yet)
    saved,            \* the image last written by save_image (None: none yet)
    disk,             \* the source folder, in os.listdir order
    pc,               \* "idle", "batch" (inside the for loop) or "aborted"
    todo,             \* batch: the positions of the listing still to visit
    written,          \* batch: the files this run wrote to the save folder
    log,              \* the stage calls made by the last handler step
    dialogs           \* the message boxes of the current or last handler run

vars == <<image, processed_image, displayed, saved, disk, pc, todo, written,
          log, dialogs>>

----------------------------------------------------------------------------
(* Values *)

None == [kind |-> "None"]

MaxSample == 255

Min(a, b) == IF a < b THEN a ELSE b

\* A PIL image: mode "RGB" (pixels <<r,g,b>>) or "L" (pixels <<v>>),
\* pixels in row-major order.
PILImage(mode, h, w, px) ==
    [kind |-> "PIL", mode |-> mode, h |-> h, w |-> w, px |-> px]

\* A NumPy array of dtype uint8: shape <<h,w,3>> or <<h,w>>.
NDArray(shape, px) == [kind |-> "ndarray", shape |-> shape, px |-> px]

\* The outcome of a call: a returned value or a raised exception.
Return(v) == [ok |-> TRUE, val |-> v, err |-> "none"]
Raise(e) == [ok |-> FALSE, val |-> None, err |-> e]

\* np.array(image)
np_array(im) ==
    NDArray(IF im.mode = "RGB" THEN <<im.h, im.w, 3>> ELSE <<im.h, im.w>>, im.px)

\* Image.fromarray(array)
Image_fromarray(a) ==
    PILImage(IF Len(a.shape) = 3 THEN "RGB" ELSE "L", a.shape[1], a.shape[2], a.px)

\* The function f with domain 1..n as a sequence: the pixels of a new array,
\* or the samples of a new pixel.  (SubSeq makes TLC compute the elements
\* once, here, rather than at each use.)
PixelsOf(f) == SubSeq(f, 1, Len(f))

\* The sum of channel c over the first k pixels.
RECURSIVE ChannelSumTo(_, _, _)
ChannelSumTo(pixels, c, k) ==
    IF k = 0 THEN 0 ELSE pixels[k][c] + ChannelSumTo(pixels, c, k - 1)

ChannelSum(pixels, c) == ChannelSumTo(pixels, c, Len(pixels))

----------------------------------------------------------------------------
(* Step 1: inverted_image = 255 - image_array *)

Invert(a) ==
    NDArray(a.shape,
            PixelsOf([i \in DOMAIN a.px |->
                PixelsOf([c \in DOMAIN a.px[i] |-> MaxSample - a.px[i][c]])]))

----------------------------------------------------------------------------
(* Float values that need not be finite: a non-negative rational num/den,  *)
(* +inf, or NaN.                                                           *)

Finite(num, den) == [kind |-> "fin", num |-> num, den |-> den]
PosInf == [kind |-> "inf", num |-> 1, den |-> 0]
NaN == [kind |-> "nan", num |-> 0, den |-> 0]

\* What a C cast of NaN to uint8 may yield (undefined behaviour; NumPy only
\* warns).  One outcome per run: a build casts the same way each time.
NaNCastOutcomes == {0, MaxSample}

----------------------------------------------------------------------------
(* Step 2: auto_balance_color *)

\* border_height = int(image_array.shape[0] * 0.05)
border_height(h) == (h * 5) \div 100

\* border_area = image_array[:border_height, :, :], as a list of pixels
border_area(a) == SubSeq(a.px, 1, border_height(a.shape[1]) * a.shape[2])

\* mean_gray / mean_c, from the border's channel sums and its pixel count n:
\* mean_c = sum_c / n and mean_gray = total / (3 n).  np.mean of an empty
\* slice is NaN; x / 0.0 is +inf for x > 0 and NaN for x = 0.
CorrectionInverted(sum_c, total, n) ==
    IF n = 0 \/ total = 0 THEN NaN
    ELSE IF sum_c = 0 THEN PosInf
    ELSE Finite(3 * sum_c, total)

Correction(sum_c, total, n) ==
    IF n = 0 \/ total = 0 THEN NaN
    ELSE IF sum_c = 0 THEN PosInf
    ELSE Finite(total, 3 * sum_c)

\* np.clip(s * correction, 0, 255) stored into the uint8 array: the store
\* casts, i.e. drops the fraction.  0 * inf and s * NaN are NaN, which
\* np.clip leaves alone.
BalancedSampleRounded(s, corr, nan_cast) ==
    CASE corr.kind = "nan" -> nan_cast
      [] corr.kind = "inf" -> IF s = 0 THEN nan_cast ELSE MaxSample
      [] OTHER -> Min(MaxSample, (2 * s * corr.num + corr.den) \div (2 * corr.den))

BalancedSampleWrapped(s, corr, nan_cast) ==
    CASE corr.kind = "nan" -> nan_cast
      [] corr.kind = "inf" -> IF s = 0 THEN nan_cast ELSE MaxSample
      [] OTHER -> ((s * corr.num) \div corr.den) % (MaxSample + 1)

BalancedSample(s, corr, nan_cast) ==
    CASE corr.kind = "nan" -> nan_cast
      [] corr.kind = "inf" -> IF s = 0 THEN nan_cast ELSE MaxSample
      [] OTHER -> Min(MaxSample, (s * corr.num) \div corr.den)

\* The three corrections (red, green, blue) of an array with 3 axes.
Corrections(a) ==
    LET border == border_area(a)
        n == Len(border)
        sums == [c \in 1..3 |-> ChannelSum(border, c)]
        total == sums[1] + sums[2] + sums[3]
    IN  [c \in 1..3 |-> Correction(sums[c], total, n)]

auto_balance_color(image_array, nan_cast) ==
    IF Len(image_array.shape) < 3
    THEN Raise("IndexError")      \* image_array[:border_height, :, :]
    ELSE LET corr == Corrections(image_array)
         IN  Return(NDArray(image_array.shape,
                 PixelsOf([i \in DOMAIN image_array.px |->
                     <<BalancedSample(image_array.px[i][1], corr[1], nan_cast),
                       BalancedSample(image_array.px[i][2], corr[2], nan_cast),
                       BalancedSample(image_array.px[i][3], corr[3], nan_cast)>>])))

----------------------------------------------------------------------------
(* Step 3: auto_adjust_exposure *)

target_brightness == 128

\* The sum of all samples of an array with 3 axes.
SampleTotal(a) == ChannelSum(a.px, 1) + ChannelSum(a.px, 2) + ChannelSum(a.px, 3)

\* adjustment_factor = target_brightness / mean_brightness, where
\* mean_brightness = total / (3 * pixels); 128.0 / 0.0 is +inf.
adjustment_factor(a) ==
    LET total == SampleTotal(a)
    IN  IF total = 0 THEN PosInf
        ELSE Finite(target_brightness * 3 * Len(a.px), total)

\* np.clip(s * adjustment_factor, 0, 255).astype(np.uint8)
ExposedSampleTarget100(s, factor, nan_cast) ==
    CASE factor.kind = "inf" -> IF s = 0 THEN nan_cast ELSE MaxSample
      [] OTHER -> Min(MaxSample, (s * factor.num * 100) \div (factor.den * 128))

ExposedSample(s, factor, nan_cast) ==
    CASE factor.kind = "inf" -> IF s = 0 THEN nan_cast ELSE MaxSample
      [] OTHER -> Min(MaxSample, (s * factor.num) \div factor.den)

auto_adjust_exposure(image_array, nan_cast) ==
    IF Len(image_array.shape) < 3
    THEN Raise("AxisError")       \* np.mean(image_array, axis=2)
    ELSE LET factor == adjustment_factor(image_array)
         IN  Return(NDArray(image_array.shape,
                 PixelsOf([i \in DOMAIN image_array.px |->
                     <<ExposedSample(image_array.px[i][1], factor, nan_cast),
                       ExposedSample(image_array.px[i][2], factor, nan_cast),
                       ExposedSample(image_array.px[i][3], factor, nan_cast)>>])))

----------------------------------------------------------------------------
(* Step 5: auto_enhance_image.  Each ImageEnhance class blends a           *)
(* "degenerate" image with the image: out = d + factor * (s - d), clipped  *)
(* to [0,255] and truncated (Image.blend with a factor above 1).           *)

\* The enhancement factors, in tenths: 1.2, 1.3, 1.5.
brightness_tenths == 12
contrast_tenths == 13
sharpness_tenths == 15

Blend(d, s, tenths) ==
    LET t == d * 10 + tenths * (s - d)
    IN  IF t <= 0 THEN 0
        ELSE IF t >= MaxSample * 10 THEN MaxSample
        ELSE t \div 10

\* ImageEnhance.Brightness(image).enhance(1.2): the degenerate image is black.
EnhanceBrightness(im) ==
    PILImage(im.mode, im.h, im.w,
        PixelsOf([i \in DOMAIN im.px |->
            PixelsOf([c \in DOMAIN im.px[i] |->
                Blend(0, im.px[i][c], brightness_tenths)])]))

\* image.convert("L") of one pixel (ITU-R 601-2 luma, rounded).
Luma(pixel) ==
    IF Len(pixel) = 1 THEN pixel[1]
    ELSE (pixel[1] * 19595 + pixel[2] * 38470 + pixel[3] * 7471 + 32768) \div 65536

RECURSIVE LumaSumTo(_, _)
LumaSumTo(pixels, k) ==
    IF k = 0 THEN 0 ELSE Luma(pixels[k]) + LumaSumTo(pixels, k - 1)

LumaSum(pixels) == LumaSumTo(pixels, Len(pixels))

\* ImageEnhance.Contrast(image).enhance(1.3): the degenerate image is the
\* uniform gray int(mean luma + 0.5).
EnhanceContrast(im) ==
    LET n == Len(im.px)
        mean == (2 * LumaSum(im.px) + n) \div (2 * n)
    IN  PILImage(im.mode, im.h, im.w,
            PixelsOf([i \in DOMAIN im.px |->
                PixelsOf([c \in DOMAIN im.px[i] |->
                    Blend(mean, im.px[i][c], contrast_tenths)])]))

\* image.filter(ImageFilter.SMOOTH): the 3x3 kernel (1 1 1 / 1 5 1 / 1 1 1)
\* over 13, rounded; the outermost rows and columns are copied, and an image
\* smaller than the kernel is copied whole.
Smooth(im, i, c) ==
    LET w == im.w
        y == ((i - 1) \div w) + 1
        x == ((i - 1) % w) + 1
        at(dy, dx) == im.px[i + dy * w + dx][c]
    IN  IF im.w < 3 \/ im.h < 3 \/ y = 1 \/ y = im.h \/ x = 1 \/ x = w
        THEN im.px[i][c]
        ELSE LET sum == at(-1, -1) + at(-1, 0) + at(-1, 1)
                      + at(0, -1) + 5 * at(0, 0) + at(0, 1)
                      + at(1, -1) + at(1, 0) + at(1, 1)
             IN  Min(MaxSample, (2 * sum + 13) \div 26)

\* ImageEnhance.Sharpness(image).enhance(1.5): the degenerate image is the
\* smoothed image.
EnhanceSharpness(im) ==
    PILImage(im.mode, im.h, im.w,
        PixelsOf([i \in DOMAIN im.px |->
            PixelsOf([c \in DOMAIN im.px[i] |->
                Blend(Smooth(im, i, c), im.px[i][c], sharpness_tenths)])]))

auto_enhance_image(image_pil) ==
    LET bright == EnhanceBrightness(image_pil)
        contrasted == EnhanceContrast(bright)
    IN  EnhanceSharpness(contrasted)

----------------------------------------------------------------------------
(* The pipeline of process_image and of the body of the batch loop: the    *)
(* stage calls in the order made, each with its input and its outcome; an  *)
(* exception ends the run.                                                 *)

Call(stage, in, out) == [stage |-> stage, in |-> in, out |-> out]

\* Lines 141-156 (and 178-193): returns [log, out], out the outcome of the
\* whole run (the enhanced image, or the exception raised).
PipelineExposureFirst(im, nan_cast) ==
    LET image_array == np_array(im)
        inverted_image == Invert(image_array)
        c1 == Call("Inverter", image_array, Return(inverted_image))
        exposed == auto_adjust_exposure(inverted_image, nan_cast)
        c2 == Call("ExposureNormalizer", inverted_image, exposed)
    IN  IF ~exposed.ok THEN [log |-> <<c1, c2>>, out |-> exposed]
        ELSE
        LET balanced == auto_balance_color(exposed.val, nan_cast)
            c3 == Call("ColorBalancer", exposed.val, balanced)
        IN  IF ~balanced.ok THEN [log |-> <<c1, c2, c3>>, out |-> balanced]
            ELSE
            LET exposure_adjusted_image_pil == Image_fromarray(balanced.val)
                enhanced == Return(auto_enhance_image(exposure_adjusted_image_pil))
                c4 == Call("CosmeticEnhancer", exposure_adjusted_image_pil, enhanced)
            IN  [log |-> <<c1, c2, c3, c4>>, out |-> enhanced]

Pipeline(im, nan_cast) ==
    LET image_array == np_array(im)
        inverted_image == Invert(image_array)
        c1 == Call("Inverter", image_array, Return(inverted_image))
        balanced == auto_balance_color(inverted_image, nan_cast)
        c2 == Call("ColorBalancer", inverted_image, balanced)
    IN  IF ~balanced.ok THEN [log |-> <<c1, c2>>, out |-> balanced]
        ELSE
        LET exposed == auto_adjust_exposure(balanced.val, nan_cast)
            c3 == Call("ExposureNormalizer", balanced.val, exposed)
        IN  IF ~exposed.ok THEN [log |-> <<c1, c2, c3>>, out |-> exposed]
            ELSE
            LET exposure_adjusted_image_pil == Image_fromarray(exposed.val)
                enhanced == Return(auto_enhance_image(exposure_adjusted_image_pil))
                c4 == Call("CosmeticEnhancer", exposure_adjusted_image_pil, enhanced)
            IN  [log |-> <<c1, c2, c3, c4>>, out |-> enhanced]

----------------------------------------------------------------------------
(* Files.  A folder entry is a directory, a file Image.open cannot read,   *)
(* or an image file; ext is the extension of its name ("" for none), which *)
(* decides whether PIL can save under that name.                           *)

Entry(type, ext, im) == [type |-> type, ext |-> ext, im |-> im]

\* The name of the entry at position i of the folder.
FileName(i) == [stem |-> i, ext |-> disk[i].ext]

\* Image.open(path)
Image_open(entry) ==
    IF entry.type = "image" THEN Return(entry.im)
    ELSE Raise("UnidentifiedImageError")

\* image.save(path): PIL picks the format from the extension.
Image_save(ext) ==
    IF ext \in {"png", "jpg", "bmp"} THEN Return(None)
    ELSE Raise("ValueError")

Warning(title, file) == [icon |-> "warning", title |-> title, file |-> file]
Information(title) == [icon |-> "information", title |-> title, file |-> None]

\* An exception that leaves a slot: PyQt5 prints it and, from 5.5 on, aborts
\* the application unless an excepthook is installed.
AfterUncaught == {"idle", "aborted"}

----------------------------------------------------------------------------
(* The handlers of ImageProcessorApp *)

\* load_image; choice = 0 stands for a cancelled file dialog.
load_image ==
    /\ pc = "idle"
    /\ \E choice \in 0..Len(disk) :
          IF choice = 0 \/ disk[choice].type = "dir"
          THEN /\ UNCHANGED <<image, displayed, pc>>
          ELSE LET opened == Image_open(disk[choice])
               IN  IF opened.ok
                   THEN /\ image' = opened.val
                        /\ displayed' = opened.val
                        /\ pc' = "idle"
                   ELSE /\ UNCHANGED <<image, displayed>>
                        /\ pc' \in AfterUncaught
    /\ log' = <<>>
    /\ dialogs' = <<>>
    /\ UNCHANGED <<processed_image, saved, disk, todo, written>>

process_image ==
    /\ pc = "idle"
    /\ IF image = None
       THEN /\ dialogs' = <<Warning("NoImageLoaded", None)>>
            /\ log' = <<>>
            /\ UNCHANGED <<processed_image, displayed, pc>>
       ELSE \E nan_cast \in NaNCastOutcomes :
              LET run == Pipeline(image, nan_cast)
              IN  /\ log' = run.log
                  /\ dialogs' = <<>>
                  /\ IF run.out.ok
                     THEN /\ processed_image' = run.out.val
                          /\ displayed' = run.out.val
                          /\ pc' = "idle"
                     ELSE /\ UNCHANGED <<processed_image, displayed>>
                          /\ pc' \in AfterUncaught
    /\ UNCHANGED <<image, saved, disk, todo, written>>

\* save_image; ext = "none" stands for a cancelled file dialog.
save_image_writes_loaded ==
    /\ pc = "idle"
    /\ IF processed_image = None
       THEN /\ dialogs' = <<Warning("NoProcessedImage", None)>>
            /\ UNCHANGED <<saved, pc>>
       ELSE /\ dialogs' = <<>>
            /\ \E ext \in {"none", "png", ""} :
                  IF ext = "none" THEN UNCHANGED <<saved, pc>>
                  ELSE IF Image_save(ext).ok
                       THEN saved' = image /\ pc' = "idle"
                       ELSE UNCHANGED saved /\ pc' \in AfterUncaught
    /\ log' = <<>>
    /\ UNCHANGED <<image, processed_image, displayed, disk, todo, written>>

save_image ==
    /\ pc = "idle"
    /\ IF processed_image = None
       THEN /\ dialogs' = <<Warning("NoProcessedImage", None)>>
            /\ UNCHANGED <<saved, pc>>
       ELSE /\ dialogs' = <<>>
            /\ \E ext \in {"none", "png", ""} :
                  IF ext = "none" THEN UNCHANGED <<saved, pc>>
                  ELSE IF Image_save(ext).ok
                       THEN saved' = processed_image /\ pc' = "idle"
                       ELSE UNCHANGED saved /\ pc' \in AfterUncaught
    /\ log' = <<>>
    /\ UNCHANGED <<image, processed_image, displayed, disk, todo, written>>

\* batch_process_images up to the for loop: the two folder dialogs.
batch_start ==
    /\ pc = "idle"
    /\ \E chosen \in BOOLEAN :
          IF chosen
          THEN /\ pc' = "batch"
               /\ todo' = [i \in 1..Len(disk) |-> i]
               /\ written' = <<>>
          ELSE UNCHANGED <<pc, todo, written>>
    /\ log' = <<>>
    /\ dialogs' = <<>>
    /\ UNCHANGED <<image, processed_image, displayed, saved, disk>>

\* One iteration of the for loop.
batch_file_stops_on_error ==
    /\ pc = "batch"
    /\ todo # <<>>
    /\ LET i == Head(todo)
           file_name == FileName(i)
           opened == Image_open(disk[i])
       IN  IF disk[i].type = "dir"
           THEN /\ log' = <<>>
                /\ todo' = Tail(todo)
                /\ UNCHANGED <<written, dialogs>>
           ELSE IF ~opened.ok
           THEN /\ log' = <<>>
                /\ dialogs' = Append(dialogs, Warning("ProcessingError", file_name))
                /\ todo' = <<>>
                /\ UNCHANGED written
           ELSE \E nan_cast \in NaNCastOutcomes :
                  LET run == Pipeline(opened.val, nan_cast)
                  IN  /\ log' = run.log
                      /\ IF run.out.ok /\ Image_save(file_name.ext).ok
                         THEN /\ written' = Append(written,
                                     [name |-> file_name, im |-> run.out.val])
                              /\ todo' = Tail(todo)
                              /\ UNCHANGED dialogs
                         ELSE /\ dialogs' = Append(dialogs,
                                     Warning("ProcessingError", file_name))
                              /\ todo' = <<>>
                              /\ UNCHANGED written
    /\ UNCHANGED <<image, processed_image, displayed, saved, disk, pc>>

batch_file ==
    /\ pc = "batch"
    /\ todo # <<>>
    /\ LET i == Head(todo)
           file_name == FileName(i)
           opened == Image_open(disk[i])
       IN  IF disk[i].type = "dir"
           THEN /\ log' = <<>>
                /\ UNCHANGED <<written, dialogs>>
           ELSE IF ~opened.ok
           THEN /\ log' = <<>>
                /\ dialogs' = Append(dialogs, Warning("ProcessingError", file_name))
                /\ UNCHANGED written
           ELSE \E nan_cast \in NaNCastOutcomes :
                  LET run == Pipeline(opened.val, nan_cast)
                  IN  /\ log' = run.log
                      /\ IF run.out.ok /\ Image_save(file_name.ext).ok
                         THEN /\ written' = Append(written,
                                     [name |-> file_name, im |-> run.out.val])
                              /\ UNCHANGED dialogs
                         ELSE /\ dialogs' = Append(dialogs,
                                     Warning("ProcessingError", file_name))
                              /\ UNCHANGED written
    /\ todo' = Tail(todo)
    /\ UNCHANGED <<image, processed_image, displayed, saved, disk, pc>>

\* After the loop: the closing message box.
batch_finish ==
    /\ pc = "batch"
    /\ todo = <<>>
    /\ dialogs' = Append(dialogs, Information("BatchDoneAllProcessedAndSaved"))
    /\ pc' = "idle"
    /\ log' = <<>>
    /\ UNCHANGED <<image, processed_image, displayed, saved, disk, todo, written>>

----------------------------------------------------------------------------
(* Inputs.  Files hold negatives; an image is built from the pixels of its *)
(* border rows (the top border_height rows) and one body pixel repeated.   *)

MakeImage(h, w, border, body) ==
    PILImage("RGB", h, w,
             PixelsOf([i \in 1..(h * w) |->
                 IF i <= Len(border) THEN border[i] ELSE body]))

GrayImage == PILImage("L", 20, 1, PixelsOf([i \in 1..20 |-> <<100>>]))

\* The scan of section 8 of the specification, 20 rows by 1 column: a light
\* gray border and a magenta-tinted body.
ImageA == MakeImage(20, 1, << <<200, 200, 200>> >>, <<180, 60, 180>>)

\* A scan with a colour cast in its border.
ImageB == MakeImage(20, 1, << <<245, 55, 55>> >>, <<5, 55, 55>>)

\* What an entry of the source folder may be.
FileContents ==
    { Entry("image", "png", ImageA),
      Entry("image", "", ImageB),        \* a name PIL cannot save under
      Entry("image", "png", GrayImage),  \* 2-D array: the balancer raises
      Entry("corrupt", "png", None),
      Entry("dir", "", None) }

\* The number of entries of the source folder.
FolderSize == 2

Init ==
    /\ image = None
    /\ processed_image = None
    /\ displayed = None
    /\ saved = None
    /\ disk \in [1..FolderSize -> FileContents]
    /\ pc = "idle"
    /\ todo = <<>>
    /\ written = <<>>
    /\ log = <<>>
    /\ dialogs = <<>>

Next ==
    \/ load_image
    \/ process_image
    \/ save_image
    \/ batch_start
    \/ batch_file
    \/ batch_finish

Spec == Init /\ [][Next]_vars

----------------------------------------------------------------------------
(* batch_process_images on its own, over larger folders.  The handler      *)
(* neither reads nor writes self.image and self.processed_image.           *)

BatchFolderSize == 4

InitBatch ==
    /\ image = None
    /\ processed_image = None
    /\ displayed = None
    /\ saved = None
    /\ disk \in [1..BatchFolderSize -> FileContents]
    /\ pc = "idle"
    /\ todo = <<>>
    /\ written = <<>>
    /\ log = <<>>
    /\ dialogs = <<>>

NextBatch ==
    \/ batch_start
    \/ batch_file
    \/ batch_finish

SpecBatch == InitBatch /\ [][NextBatch]_vars

----------------------------------------------------------------------------
(* The stages on their own: process_image from a state with an image       *)
(* loaded, the image drawn from a larger set.                              *)

\* Negatives whose inversions are black and two colour casts.
BorderPalette ==
    { <<255, 255, 255>>, <<245, 55, 55>>, <<5, 55, 55>> }

\* Negatives whose inversions are black, white, a cast, the body of ImageA.
BodyPalette ==
    { <<255, 255, 255>>, <<0, 0, 0>>, <<5, 55, 55>>, <<180, 60, 180>> }

\* 19 rows: no border row; 20 rows: one.
Heights == {19, 20}

MaxWidth == 3

StageImages ==
    { MakeImage(s.h, s.w, s.border, s.body) :
        s \in UNION { [h : {h}, w : {w},
                       border : [1..(border_height(h) * w) -> BorderPalette],
                       body : BodyPalette] : h \in Heights, w \in 1..MaxWidth } }
    \cup {GrayImage}

InitStages ==
    /\ image \in StageImages \cup {None}
    /\ processed_image = None
    /\ displayed = image
    /\ saved = None
    /\ disk = <<>>
    /\ pc = "idle"
    /\ todo = <<>>
    /\ written = <<>>
    /\ log = <<>>
    /\ dialogs = <<>>

NextStages == process_image

SpecStages == InitStages /\ [][NextStages]_vars

----------------------------------------------------------------------------
(* Properties of the stages, read off the calls recorded in log.           *)

Is3D(a) == Len(a.shape) = 3

AllBlack(a) == \A i \in DOMAIN a.px : \A c \in DOMAIN a.px[i] : a.px[i][c] = 0

\* The calls of one stage on an array of shape (h, w, 3).
CallsOf(stage) ==
    {k \in DOMAIN log : log[k].stage = stage /\ Is3D(log[k].in)}

\* The number of pixels in the top floor(0.05 * height) rows.
BorderCount(a) == (a.shape[1] \div 20) * a.shape[2]

BorderSum(a, c) == ChannelSumTo(a.px, c, BorderCount(a))

\* C3: given an all-black buffer, the Color Balancer and the Exposure
\* Normalizer both end in DegenerateChannelError, and return no buffer.
C3_AllBlackRaisesDegenerate ==
    \A k \in CallsOf("ColorBalancer") \cup CallsOf("ExposureNormalizer") :
        AllBlack(log[k].in) =>
            /\ ~log[k].out.ok
            /\ log[k].out.err = "DegenerateChannelError"

\* C4: when the image has fewer than 20 rows, so that the border has no
\* row, the Color Balancer fails with InvalidInputError.
C4_EmptyBorderRaisesInvalidInput ==
    \A k \in CallsOf("ColorBalancer") :
        log[k].in.shape[1] < 20 =>
            /\ ~log[k].out.ok
            /\ log[k].out.err = "InvalidInputError"

\* Whether the mean of all samples of a differs from 128 by at most 1.
MeanNear128(a) ==
    LET n == 3 * Len(a.px)
        total == SampleTotal(a)
    IN  127 * n <= total /\ total <= 129 * n

\* Whether no sample of a, scaled by 128 / mean brightness, exceeds 255.
ExposureUnclamped(a) ==
    LET n == 3 * Len(a.px)
        total == SampleTotal(a)
    IN  \A i \in DOMAIN a.px : \A c \in 1..3 :
            a.px[i][c] * 128 * n <= MaxSample * total

\* C5 as stated: for every buffer with nonzero mean brightness, the output
\* of the Exposure Normalizer has a mean brightness within 1 of 128.
C5_ExposureMeanNear128 ==
    \A k \in CallsOf("ExposureNormalizer") :
        (SampleTotal(log[k].in) > 0 /\ log[k].out.ok) => MeanNear128(log[k].out.val)

\* C5 amended: for every buffer with nonzero mean brightness none of whose
\* scaled samples exceeds 255 (nothing is clamped), the output of the
\* Exposure Normalizer has a mean brightness within 1 of 128.
C5_UnclampedExposureMeanNear128 ==
    \A k \in CallsOf("ExposureNormalizer") :
        (SampleTotal(log[k].in) > 0 /\ ExposureUnclamped(log[k].in))
            => log[k].out.ok /\ MeanNear128(log[k].out.val)

\* An unclamped exposure call that changed the buffer.
C5_Witness ==
    \E k \in CallsOf("ExposureNormalizer") :
        /\ SampleTotal(log[k].in) > 0
        /\ ExposureUnclamped(log[k].in)
        /\ log[k].out.ok
        /\ log[k].out.val # log[k].in
        /\ \E i \in DOMAIN log[k].in.px : log[k].out.val.px[i][1] > log[k].in.px[i][1]

\* Whether the border has a row and no border channel mean is zero.
BorderMeansNonzero(a) ==
    /\ BorderCount(a) > 0
    /\ \A c \in 1..3 : BorderSum(a, c) > 0

\* Whether the three channel means over the border differ by at most 1.
BorderNeutral(a) ==
    \A c, d \in 1..3 : BorderSum(a, c) - BorderSum(a, d) <= BorderCount(a)

\* Whether no border sample of a, scaled by its channel's gain, exceeds 255.
BorderUnclamped(a) ==
    LET total == BorderSum(a, 1) + BorderSum(a, 2) + BorderSum(a, 3)
    IN  \A i \in 1..BorderCount(a) : \A c \in 1..3 :
            a.px[i][c] * total <= MaxSample * 3 * BorderSum(a, c)

\* C6 as stated: for every buffer with a non-empty border and nonzero border
\* channel means, the border channel means of the Color Balancer's output
\* are equal within 1.
C6_BorderNeutral ==
    \A k \in CallsOf("ColorBalancer") :
        (BorderMeansNonzero(log[k].in) /\ log[k].out.ok)
            => BorderNeutral(log[k].out.val)

\* C6 amended: the same, for the buffers none of whose border samples,
\* scaled by its channel's gain, exceeds 255.
C6_UnclampedBorderNeutral ==
    \A k \in CallsOf("ColorBalancer") :
        (BorderMeansNonzero(log[k].in) /\ BorderUnclamped(log[k].in))
            => log[k].out.ok /\ BorderNeutral(log[k].out.val)

\* A balancer call on an unclamped border of two different pixels that
\* moved the border's channel means.
C6_Witness ==
    \E k \in CallsOf("ColorBalancer") :
        /\ BorderMeansNonzero(log[k].in)
        /\ BorderUnclamped(log[k].in)
        /\ BorderCount(log[k].in) >= 2
        /\ log[k].in.px[1] # log[k].in.px[2]
        /\ ~BorderNeutral(log[k].in)
        /\ log[k].out.ok
        /\ BorderNeutral(log[k].out.val)

\* The samples of the balancer call k whose gain is finite, each with the
\* product s * gain as the fraction num / den.
BalancedProducts(k) ==
    LET a == log[k].in
        total == BorderSum(a, 1) + BorderSum(a, 2) + BorderSum(a, 3)
    IN  { [i |-> i, c |-> c,
           num |-> a.px[i][c] * total, den |-> 3 * BorderSum(a, c)] :
             i \in DOMAIN a.px,
             c \in {c \in 1..3 : BorderCount(a) > 0 /\ BorderSum(a, c) > 0} }

\* The samples of the exposure call k, each with the product
\* s * adjustmentFactor as a fraction, when the mean brightness is nonzero.
ExposedProducts(k) ==
    LET a == log[k].in
        total == SampleTotal(a)
    IN  { [i |-> i, c |-> c,
           num |-> a.px[i][c] * 128 * 3 * Len(a.px), den |-> total] :
             i \in DOMAIN a.px, c \in {c \in 1..3 : total > 0} }

IsSample(v) == v \in 0..MaxSample

\* C7: after the inversion, the Color Balancer and the Exposure Normalizer
\* every sample of the output is an integer in [0,255], and a sample whose
\* scaled value exceeds 255 becomes exactly 255 (clamped, not wrapped).
C7_RangeByClamping ==
    /\ \A k \in DOMAIN log :
          (log[k].stage # "CosmeticEnhancer" /\ log[k].out.ok) =>
              \A i \in DOMAIN log[k].out.val.px :
                  \A c \in DOMAIN log[k].out.val.px[i] :
                      IsSample(log[k].out.val.px[i][c])
    /\ \A k \in CallsOf("Inverter") :
          \A i \in DOMAIN log[k].in.px : \A c \in 1..3 :
              log[k].out.val.px[i][c] = 255 - log[k].in.px[i][c]
    /\ \A k \in CallsOf("ColorBalancer") : \A p \in BalancedProducts(k) :
          p.num > 255 * p.den => log[k].out.val.px[p.i][p.c] = 255
    /\ \A k \in CallsOf("ExposureNormalizer") : \A p \in ExposedProducts(k) :
          p.num > 255 * p.den => log[k].out.val.px[p.i][p.c] = 255

\* Both stages clamped a sample whose scaled value, taken modulo 256, is not
\* 255.
C7_Witness ==
    /\ \E k \in CallsOf("ColorBalancer") : \E p \in BalancedProducts(k) :
          /\ p.num > 255 * p.den
          /\ (p.num \div p.den) % 256 # 255
          /\ log[k].out.val.px[p.i][p.c] = 255
    /\ \E k \in CallsOf("ExposureNormalizer") : \E p \in ExposedProducts(k) :
          /\ p.num > 255 * p.den
          /\ (p.num \div p.den) % 256 # 255
          /\ log[k].out.val.px[p.i][p.c] = 255

\* C9 as stated: every output sample of the Color Balancer is s * gain_c
\* clamped to [0,255] and rounded to the nearest integer.
C9_BalancedRoundedToNearest ==
    \A k \in CallsOf("ColorBalancer") : \A p \in BalancedProducts(k) :
        LET out == log[k].out.val.px[p.i][p.c]
        IN  IF p.num >= 255 * p.den THEN out = 255
            ELSE /\ 2 * (out * p.den - p.num) <= p.den
                 /\ 2 * (p.num - out * p.den) <= p.den

\* C9 amended: every output sample of the Color Balancer is s * gain_c
\* clamped to [0,255] with its fraction dropped (2.6 is stored as 2).
C9_BalancedTruncated ==
    \A k \in CallsOf("ColorBalancer") : \A p \in BalancedProducts(k) :
        LET out == log[k].out.val.px[p.i][p.c]
        IN  /\ log[k].out.ok
            /\ IF p.num >= 255 * p.den THEN out = 255
               ELSE out * p.den <= p.num /\ p.num < (out + 1) * p.den

\* A product below 255 with a fraction of at least one half, stored as the
\* integer below it.
C9_Witness ==
    \E k \in CallsOf("ColorBalancer") : \E p \in BalancedProducts(k) :
        /\ p.num < 255 * p.den
        /\ 2 * (p.num % p.den) >= p.den
        /\ log[k].out.val.px[p.i][p.c] = p.num \div p.den

----------------------------------------------------------------------------
(* Properties of the handlers. *)

StageOrder ==
    <<"Inverter", "ColorBalancer", "ExposureNormalizer", "CosmeticEnhancer">>

\* Whether x and y hold the same pixels in the same geometry (x, y arrays or
\* PIL images).
Geometry(x) == IF x.kind = "PIL" THEN <<x.h, x.w>> ELSE <<x.shape[1], x.shape[2]>>
SameBuffer(x, y) == Geometry(x) = Geometry(y) /\ x.px = y.px

\* A step of process_image or of the batch loop, by the calls it made.
C1_Step ==
    LET l == log'
        n == Len(l)
        source == IF pc = "idle" THEN image ELSE disk[Head(todo)].im
    IN  n > 0 =>
          /\ n <= 4
          /\ \A k \in 1..n : l[k].stage = StageOrder[k]
          /\ \A k \in 1..(n - 1) : l[k].out.ok
          /\ SameBuffer(l[1].in, source)
          /\ \A k \in 2..n : SameBuffer(l[k].in, l[k - 1].out.val)
          /\ n = 4 \/ ~l[n].out.ok
          /\ ~l[n].out.ok =>
                /\ processed_image' = processed_image
                /\ displayed' = displayed
                /\ written' = written
          /\ (l[n].out.ok /\ pc = "idle") => processed_image' = l[4].out.val
          /\ (l[n].out.ok /\ pc = "batch" /\ written' # written) =>
                written' = Append(written,
                    [name |-> FileName(Head(todo)), im |-> l[4].out.val])

\* C1: in every run of the pipeline on one image the stages execute in the
\* order Inverter, Color Balancer, Exposure Normalizer, Cosmetic Enhancer,
\* each on the previous stage's output; if a stage fails no later stage runs,
\* processed_image is not updated and (in batch) no file is written.
C1_StagesInOrderFailFast == [][C1_Step]_vars

\* In a batch, after one file was written and with a processed image held,
\* the balancer has just failed on the next file.
C1_Witness ==
    /\ pc = "batch"
    /\ Len(log) = 2
    /\ log[2].stage = "ColorBalancer"
    /\ ~log[2].out.ok
    /\ Len(written) = 1
    /\ processed_image # None

\* A step of load_image, process_image or save_image.
C10_Step ==
    /\ processed_image' # processed_image =>
          /\ pc = "idle"
          /\ image # None
          /\ image' = image
          /\ saved' = saved
          /\ Len(log') = 4
          /\ log'[4].out.ok
          /\ SameBuffer(log'[1].in, image)
          /\ processed_image' = log'[4].out.val
    /\ (pc = "idle" /\ image = None) =>
          /\ log' = <<>>
          /\ processed_image' = processed_image
    /\ saved' # saved =>
          /\ processed_image # None
          /\ saved' = processed_image
          /\ processed_image' = processed_image

\* C10: processed_image is changed only by a process_image call that runs
\* to completion; process_image with no image loaded runs no stage;
\* save_image writes only when processed_image is set, and writes the result
\* of the most recent completed process_image.
C10_ProcessedChangesOnlyByProcess == [][C10_Step]_vars

\* After load A, process, load B, save: the file written is the processed
\* form of A, and B is the image loaded.
C10_Witness ==
    /\ image = ImageB
    /\ saved # None
    /\ \E u \in NaNCastOutcomes :
          /\ saved = Pipeline(ImageA, u).out.val
          /\ saved # Pipeline(ImageB, u).out.val

----------------------------------------------------------------------------
(* Properties of a finished batch run. *)

BatchDone ==
    /\ pc = "idle"
    /\ dialogs # <<>>
    /\ dialogs[Len(dialogs)].icon = "information"

RegularFiles == {i \in DOMAIN disk : disk[i].type # "dir"}

\* The writes and the reported failures of the file at position i.
WritesOf(i) == {k \in DOMAIN written : written[k].name = FileName(i)}
FailuresOf(i) ==
    {k \in DOMAIN dialogs :
        dialogs[k].icon = "warning" /\ dialogs[k].file = FileName(i)}

\* The images the pipeline may produce from the file at position i, if it
\* can be opened, processed and saved under its name.
ResultsOf(i) ==
    IF ~Image_open(disk[i]).ok \/ ~Image_save(disk[i].ext).ok THEN {}
    ELSE {r.out.val : r \in {q \in {Pipeline(disk[i].im, u) : u \in NaNCastOutcomes} :
                                q.out.ok}}

\* C2: a failure on one file does not abort the batch: every file that can
\* be opened, processed and saved is written once under its own name and has
\* no failure reported; every other file has exactly one failure reported
\* and is not written.
C2_BatchContinuesOnError ==
    BatchDone =>
        \A i \in RegularFiles :
            IF ResultsOf(i) # {}
            THEN /\ Cardinality(WritesOf(i)) = 1
                 /\ \A k \in WritesOf(i) : written[k].im \in ResultsOf(i)
                 /\ FailuresOf(i) = {}
            ELSE /\ WritesOf(i) = {}
                 /\ Cardinality(FailuresOf(i)) = 1

\* A finished run in which a file failed between two files that were
\* written.
C2_Witness ==
    /\ BatchDone
    /\ \E i, j, k \in RegularFiles :
          /\ i < j /\ j < k
          /\ WritesOf(i) # {} /\ FailuresOf(j) # {} /\ WritesOf(k) # {}
          /\ disk[j].type = "corrupt"

\* What the closing message box states: that all images were processed and
\* saved, i.e. as many successes as there are files and no failure.
ClosingSummary(d) ==
    IF d.title = "BatchDoneAllProcessedAndSaved"
    THEN [succeeded |-> Cardinality(RegularFiles), failed |-> 0]
    ELSE [succeeded |-> -1, failed |-> -1]

\* C8: the terminal result of a batch run gives the number of images that
\* succeeded and the number that failed, equal to the number of files
\* written and the number of errors recorded during the run.
C8_TerminalSummaryMatches ==
    BatchDone =>
        LET summary == ClosingSummary(dialogs[Len(dialogs)])
        IN  /\ summary.succeeded = Len(written)
            /\ summary.failed =
                  Cardinality({k \in DOMAIN dialogs : dialogs[k].icon = "warning"})

====
